---- MODULE Spec2Model ----
(***************************************************************************)
(* Model of the Aegis video content pipeline                               *)
(* (src/src/video_content_creator).                                        *)
(*                                                                         *)
(* Text is a sequence of one-character strings.  Scene durations are       *)
(* counted in fifths of a second, so that word_count / 2.5 is the integer  *)
(* 2 * word_count and the floor 1.0 is 5.                                  *)
(***************************************************************************)
EXTENDS Integers, Sequences, FiniteSets, TLC

VARIABLES
    pc,            \* the position of the run or of the function under study
    script,        \* the script text
    scenes,        \* the scenes last extracted from the script
    scene_images,  \* the (image_path, duration) entries of create_video_content
    frames,        \* the lines of the concat directive frames.txt
    audio_clips,   \* the clip paths of synthesize_voice
    metadata,      \* the metadata record of the script
    fs,            \* the files that exist
    merge,         \* what the last call of combine_audio_video did
    subs,          \* what the last call of add_subtitles wrote
    skip_upload,   \* the skip_upload argument of run_pipeline
    calls,         \* the stage functions run_pipeline has called, in order
    raised,        \* the stage whose exception reached run_pipeline, or "none"
    swallowed,     \* the stages that failed and did not raise
    error,         \* the first failure of the run, or "none"
    result,        \* what run_pipeline returned, or "running"
    texts,         \* the narration texts whose durations are estimated
    estimates,     \* the word count and durations estimated for each text
    fs_before,     \* the files that existed when cleanup_temp_files was last called
    cleaned,       \* the keep_final argument and the return value of each call of
                   \* cleanup_temp_files, in order
    image_log,     \* what each call of generate_image_for_scene did, in order
    audio_log,     \* what each call of generate_audio_for_text did, in order
    env,           \* the required environment variables that are set
    args,          \* the command line as the argument parser sees it
    prompts,       \* the content of the prompts file that was read
    day,           \* the day of the year when the prompt was loaded, or 0
    prompt,        \* the prompt load_prompt_from_file returned
    topic,         \* the topic run_pipeline is called with
    exit_code,     \* the exit status of the process, or -1 while it runs
    run,           \* the number of the run of the pipeline on the output directory
    written        \* the run that last wrote script.txt and the run that last wrote
                   \* final_video.mp4 in the output directory (0: no run has)

sceneVars == <<script, scenes, scene_images, frames, audio_clips, metadata>>

runVars == <<skip_upload, calls, raised, swallowed, error, result>>

\* the variables of the functions studied on their own
auxVars == <<texts, estimates>>

\* the record of the calls of generate_image_for_scene and
\* generate_audio_for_text
logVars == <<image_log, audio_log>>

\* the variables of the main program
mainVars == <<env, args, prompts, day, prompt, topic, exit_code>>

\* the record of the calls of cleanup_temp_files
cleanupVars == <<fs_before, cleaned>>

\* the history of the output directory over the runs of the pipeline
historyVars == <<run, written>>

vars == <<pc, sceneVars, fs, merge, subs, runVars, auxVars, cleanupVars, logVars, mainVars, historyVars>>

(***************************************************************************)
(* Bounds                                                                  *)
(***************************************************************************)
\* longest script text enumerated for the scene parser
MaxLen == 5

(***************************************************************************)
(* Text                                                                    *)
(***************************************************************************)
NL == "\n"

\* the characters a script is made of: the four delimiters the parser looks
\* for, a letter, a blank and a line break
Alphabet == {"[", "]", "(", ")", "a", " ", NL}

\* the characters str.strip() and str.split() treat as whitespace
Whitespace == {" ", NL}

Texts(n) == UNION {[1..k -> Alphabet] : k \in 0..n}

Max(a, b) == IF a >= b THEN a ELSE b

Min(a, b) == IF a <= b THEN a ELSE b

\* str.lstrip()
RECURSIVE LStrip(_)
LStrip(s) ==
    IF s # <<>> /\ Head(s) \in Whitespace THEN LStrip(Tail(s)) ELSE s

\* str.rstrip()
RECURSIVE RStrip(_)
RStrip(s) ==
    IF s # <<>> /\ s[Len(s)] \in Whitespace
    THEN RStrip(SubSeq(s, 1, Len(s) - 1))
    ELSE s

\* str.strip()
Strip(s) == RStrip(LStrip(s))

\* str.split(sep) for a separator of one or two characters: the pieces between
\* the non-overlapping occurrences of sep, scanned from the left
RECURSIVE SplitFrom(_, _, _, _)
SplitFrom(s, sep, start, i) ==
    IF i + Len(sep) - 1 > Len(s)
    THEN <<SubSeq(s, start, Len(s))>>
    ELSE IF SubSeq(s, i, i + Len(sep) - 1) = sep
         THEN <<SubSeq(s, start, i - 1)>>
                  \o SplitFrom(s, sep, i + Len(sep), i + Len(sep))
         ELSE SplitFrom(s, sep, start, i + 1)

Split(s, sep) == SplitFrom(s, sep, 1, 1)

\* str.split() without a separator: the maximal runs of non-whitespace
RECURSIVE Words(_)
Words(s) ==
    LET t == LStrip(s)
        n == IF \E i \in 1..Len(t) : t[i] \in Whitespace
             THEN (CHOOSE i \in 1..Len(t) :
                      t[i] \in Whitespace /\ \A j \in 1..(i - 1) : t[j] \notin Whitespace) - 1
             ELSE Len(t)
    IN  IF t = <<>> THEN <<>>
        ELSE <<SubSeq(t, 1, n)>> \o Words(SubSeq(t, n + 1, Len(t)))

\* len(text.split())
\* (a variant of WordCount that counts characters instead of words)
WordCount_Characters(s) == Len(s)

\* len(s.split())
WordCount(s) == Len(Words(s))

(***************************************************************************)
(* Regular expressions  \[(.*?)\]  and  \((.*?)\)                          *)
(***************************************************************************)
\* (a variant of MatchEnd that takes the last closing delimiter: a greedy .*)
MatchEnd_Greedy(s, p, open, close) ==
    IF p <= Len(s) /\ s[p] = open /\ \E e \in (p + 1)..Len(s) : s[e] = close
    THEN LET e == CHOOSE e \in (p + 1)..Len(s) :
                      s[e] = close /\ \A k \in (e + 1)..Len(s) : s[k] # close
         IN  IF \A k \in (p + 1)..(e - 1) : s[k] # NL THEN e ELSE 0
    ELSE 0

\* where a match that opens at position p closes: the first closing delimiter
\* after p, provided no line break lies between ('.' does not match a line
\* break); 0 when there is no match at p
MatchEnd(s, p, open, close) ==
    IF p <= Len(s) /\ s[p] = open /\ \E e \in (p + 1)..Len(s) : s[e] = close
    THEN LET e == CHOOSE e \in (p + 1)..Len(s) :
                      s[e] = close /\ \A k \in (p + 1)..(e - 1) : s[k] # close
         IN  IF \A k \in (p + 1)..(e - 1) : s[k] # NL THEN e ELSE 0
    ELSE 0

\* re.findall: the groups of the non-overlapping matches, leftmost first
RECURSIVE FindAllFrom(_, _, _, _)
FindAllFrom(s, p, open, close) ==
    IF p > Len(s) THEN <<>>
    ELSE LET e == MatchEnd(s, p, open, close)
         IN  IF e # 0
             THEN <<SubSeq(s, p + 1, e - 1)>> \o FindAllFrom(s, e + 1, open, close)
             ELSE FindAllFrom(s, p + 1, open, close)

FindAll(s, open, close) == FindAllFrom(s, 1, open, close)

\* re.sub(pattern, '', s): s without the non-overlapping matches
RECURSIVE SubFrom(_, _, _, _)
SubFrom(s, p, open, close) ==
    IF p > Len(s) THEN <<>>
    ELSE LET e == MatchEnd(s, p, open, close)
         IN  IF e # 0
             THEN SubFrom(s, e + 1, open, close)
             ELSE <<s[p]>> \o SubFrom(s, p + 1, open, close)

Sub(s, open, close) == SubFrom(s, 1, open, close)

(***************************************************************************)
(* generate_script.py: extract_scenes_from_script                          *)
(***************************************************************************)
\* the description of a paragraph without a bracket pair; a one-element
\* sequence that no text of the alphabet equals
GeneralScene == <<"General scene">>

\* script_content.split('\n\n')
Paragraphs(text) == Split(text, <<NL, NL>>)

\* scene_desc[0] if scene_desc else "General scene"
SceneDescription(para) ==
    LET scene_desc == FindAll(para, "[", "]")
    IN  IF scene_desc # <<>> THEN scene_desc[1] ELSE GeneralScene

\* re.findall(r'\((.*?)\)', para)
VisualCues(para) == FindAll(para, "(", ")")

\* (a variant of CleanText without the final strip)
CleanText_NoStrip(para) == Sub(Sub(para, "[", "]"), "(", ")")

\* the bracket pairs removed, then the parenthesis pairs of what remains,
\* then stripped
CleanText(para) == Strip(Sub(Sub(para, "[", "]"), "(", ")"))

\* (a variant of KeepsParagraph without the test of the cleaned text)
KeepsParagraph_AnyText(para) == Strip(para) # <<>>

\* whether the loop body appends a scene for the paragraph
KeepsParagraph(para) == Strip(para) # <<>> /\ CleanText(para) # <<>>

SceneOf(para) ==
    [scene_description |-> SceneDescription(para),
     narration         |-> CleanText(para),
     visual_cues       |-> VisualCues(para)]

RECURSIVE ScenesOfParagraphs(_)
ScenesOfParagraphs(paras) ==
    IF paras = <<>> THEN <<>>
    ELSE (IF KeepsParagraph(Head(paras)) THEN <<SceneOf(Head(paras))>> ELSE <<>>)
             \o ScenesOfParagraphs(Tail(paras))

extract_scenes_from_script(text) == ScenesOfParagraphs(Paragraphs(text))

(***************************************************************************)
(* generate_script.py: the metadata of generate_content_script             *)
(***************************************************************************)
\* a duration of word_count / 2.5 seconds is 2 fifths of a second per word
FifthsPerWord == 2

\* max(1.0, duration): one second is 5 fifths
MinSceneFifths == 5

NoMetadata == [word_count |-> -1, estimated_duration_seconds |-> -1]

\* "word_count" and "estimated_duration_seconds" of the metadata record
script_metadata(text) ==
    [word_count                 |-> WordCount(text),
     estimated_duration_seconds |-> WordCount(text) * FifthsPerWord]

(***************************************************************************)
(* generate_video.py: scene images and the concat directive                *)
(***************************************************************************)
\* f"{i:03d}"
Pad3(i) ==
    IF i < 10 THEN "00" \o ToString(i)
    ELSE IF i < 100 THEN "0" \o ToString(i) ELSE ToString(i)

\* os.path.join(video_dir, f"scene_{i:03d}.png"), i counted from 0
ImagePath(i) == [dir |-> "video_frames", name |-> "scene_" \o Pad3(i) \o ".png"]

\* the entry the loop of create_video_content appends for scene number i
SceneImage(scene, i) ==
    [image_path |-> ImagePath(i),
     duration   |-> WordCount(scene.narration) * FifthsPerWord]

SceneImages(scs) == [k \in 1..Len(scs) |-> SceneImage(scs[k], k - 1)]

\* whether the name base64 is bound in generate_video: the module imports it
\* only when it is run as a script, not when the pipeline imports it
Base64Imported(run_as_script) == run_as_script

\* What the image service does with a request: "failed" is a request that
\* raises, an error status, or an answer without artifacts; "artifacts" is an
\* answer with image data.
ImageResponses == {"failed", "artifacts"}

\* (a variant of generate_image_for_scene without the except clause)
generate_image_for_scene_NoFallback(output_path, response, placeholder_ok, base64_imported) ==
    LET decoded == response = "artifacts" /\ base64_imported
    IN  [request     |-> output_path,
         response    |-> response,
         placeholder |-> "none",
         content     |-> IF decoded THEN "image"
                         ELSE IF response = "artifacts" THEN "empty" ELSE "none",
         outcome     |-> IF decoded THEN "returned" ELSE "raised",
         returned    |-> output_path]

\* generate_image_for_scene(prompt, api_key, output_path): one request; with
\* artifacts the file is opened for writing and the data decoded and written;
\* any exception leads to create_placeholder_image, which writes the
\* placeholder or logs its own failure; the output path is returned.  The
\* record says what was requested, what ended up at the output path ("none":
\* nothing was written) and how the call ended.
generate_image_for_scene(output_path, response, placeholder_ok, base64_imported) ==
    LET decoded == response = "artifacts" /\ base64_imported
    IN  [request     |-> output_path,
         response    |-> response,
         placeholder |-> IF decoded THEN "none"
                         ELSE IF placeholder_ok THEN "created" ELSE "failed",
         content     |-> IF decoded THEN "image"
                         ELSE IF placeholder_ok THEN "placeholder"
                         ELSE IF response = "artifacts" THEN "empty" ELSE "none",
         outcome     |-> "returned",
         returned    |-> output_path]

\* (a variant of DirectiveDuration without the floor)
DirectiveDuration_NoFloor(duration) == duration

\* the duration create_video_from_images writes for one entry
DirectiveDuration(duration) == Max(MinSceneFifths, duration)

\* the lines create_video_from_images writes to frames.txt
RECURSIVE DirectiveBody(_)
DirectiveBody(images) ==
    IF images = <<>> THEN <<>>
    ELSE <<[kind |-> "file", path |-> Head(images).image_path, value |-> 0],
           [kind |-> "duration", path |-> Head(images).image_path,
            value |-> DirectiveDuration(Head(images).duration)]>>
             \o DirectiveBody(Tail(images))

FramesDirective(images) ==
    DirectiveBody(images)
        \o (IF images # <<>>
            THEN <<[kind |-> "file", path |-> images[Len(images)].image_path, value |-> 0]>>
            ELSE <<>>)

(***************************************************************************)
(* Files                                                                   *)
(***************************************************************************)
\* a file is a directory and a name; "cwd" is the working directory of the
\* process (the directory of a relative path without a directory part) and
\* "out" the output directory of a topic
Dirs == {"cwd", "out"}

\* os.path.join(dir, name)
Path(dir, name) == [dir |-> dir, name |-> name]

\* a path given as a bare file name: it is resolved in the working directory
Relative(name) == Path("cwd", name)

(***************************************************************************)
(* merge_media.py: combine_audio_video                                     *)
(*                                                                         *)
(* Probed durations are whole seconds and the adjustment factor is an      *)
(* exact fraction; the rounding of floats and of the encoder's time base   *)
(* is not modelled.                                                        *)
(***************************************************************************)
RECURSIVE Gcd(_, _)
Gcd(a, b) == IF b = 0 THEN a ELSE Gcd(b, a % b)

\* the fraction n / d in lowest terms, as <<numerator, denominator>>
Fraction(n, d) == <<n \div Gcd(n, d), d \div Gcd(n, d)>>

One == <<1, 1>>

\* (a variant of NeedsStretch that also stretches on equal durations)
NeedsStretch_OrEqual(audio_duration, video_duration) ==
    audio_duration >= video_duration

\* if audio_duration > video_duration
NeedsStretch(audio_duration, video_duration) == audio_duration > video_duration

\* (a variant of AdjustmentFactor with the quotient inverted)
AdjustmentFactor_Inverted(audio_duration, video_duration) ==
    Fraction(video_duration, audio_duration)

\* adjustment_factor = audio_duration / video_duration
AdjustmentFactor(audio_duration, video_duration) ==
    Fraction(audio_duration, video_duration)

\* the duration of the output of  -filter:v setpts={factor}*PTS : every
\* presentation timestamp of the input is multiplied by the factor
SetPts(duration, factor) == (duration * factor[1]) \div factor[2]

\* the duration of the output of the mux with -shortest: it ends with the
\* shorter of the video and the audio stream
Shortest(video_duration, audio_duration) == Min(video_duration, audio_duration)

NoMerge ==
    [outcome |-> "none", video_path |-> Path("cwd", ""), output_dir |-> "cwd",
     audio_duration |-> 0, video_duration |-> 0, stretched |-> FALSE,
     adjustment_factor |-> One, merge_input |-> Path("cwd", ""),
     input_duration |-> 0, final_duration |-> 0]

\* The external steps of combine_audio_video, in the order it takes them; a
\* fault names the one that fails ("none": none does).
MergeFaults == {"none", "probe_audio", "probe_video", "stretch", "mux"}

\* combine_audio_video(video_path, audio_path, output_dir) on the files
\* `files`, where the probes report audio_duration and video_duration;
\* given_dir is "none" when no output_dir is passed.  The result is the files
\* afterwards and the record of the call.
combine_audio_video(files, video_path, audio_path, given_dir, audio_duration, video_duration, fault) ==
    LET output_dir  == IF given_dir = "none" THEN video_path.dir ELSE given_dir
        final_path  == Path(output_dir, "final_video.mp4")
        temp_path   == Path(output_dir, "temp_adjusted_video.mp4")
        stretch     == NeedsStretch(audio_duration, video_duration)
        factor      == IF stretch
                       THEN AdjustmentFactor(audio_duration, video_duration)
                       ELSE One
        input       == IF stretch THEN temp_path ELSE video_path
        input_len   == IF stretch THEN SetPts(video_duration, factor)
                                  ELSE video_duration
        call        == [NoMerge EXCEPT !.video_path = video_path,
                                       !.output_dir = output_dir]
        probed      == [call EXCEPT !.audio_duration = audio_duration,
                                    !.video_duration = video_duration]
        raise(rec, fls) == [files |-> fls, call |-> [rec EXCEPT !.outcome = "raised"]]
        after_stretch == IF stretch THEN files \cup {temp_path} ELSE files
        stretched_rec == [probed EXCEPT !.stretched = stretch,
                                        !.adjustment_factor = factor,
                                        !.merge_input = input,
                                        !.input_duration = input_len]
        after_mux   == after_stretch \cup {final_path}
    IN  IF video_path \notin files \/ audio_path \notin files
            THEN raise(call, files)
        ELSE IF fault = "probe_audio" THEN raise(call, files)
        ELSE IF fault = "probe_video"
            THEN raise([call EXCEPT !.audio_duration = audio_duration], files)
        ELSE IF stretch /\ fault = "stretch" THEN raise(probed, files)
        ELSE IF fault = "mux" THEN raise(stretched_rec, after_stretch)
        ELSE [files |-> after_mux \ {Relative("temp_adjusted_video.mp4")},
              call  |-> [stretched_rec EXCEPT
                            !.outcome = "returned",
                            !.final_duration =
                                Shortest(input_len, audio_duration)]]

(***************************************************************************)
(* merge_media.py: add_subtitles                                           *)
(***************************************************************************)
NoSubs == [outcome |-> "none", duration |-> 0, entries |-> <<>>]

\* a time in seconds as a fraction in lowest terms
Seconds(n, d) == Fraction(n, d)

\* format_srt_time: HH:MM:SS,mmm of a time, every part cut to an integer
format_srt_time(seconds) ==
    LET whole == seconds[1] \div seconds[2]
    IN  [hours        |-> whole \div 3600,
         minutes      |-> (whole % 3600) \div 60,
         seconds      |-> whole % 60,
         milliseconds |-> ((seconds[1] % seconds[2]) * 1000) \div seconds[2]]

\* lines = script_content.strip().split('\n')
SubtitleLines(text) == Split(Strip(text), <<NL>>)

\* time_per_line = duration / len(lines)
TimePerLine(duration, lines) == Seconds(duration, Len(lines))

\* the entry written for lines[i], i counted from 0
SubtitleEntry(lines, i, time_per_line) ==
    LET start_time == Seconds(i * time_per_line[1], time_per_line[2])
        end_time   == Seconds((i + 1) * time_per_line[1], time_per_line[2])
    IN  [index           |-> i + 1,
         start_time      |-> start_time,
         end_time        |-> end_time,
         start_formatted |-> format_srt_time(start_time),
         end_formatted   |-> format_srt_time(end_time),
         text            |-> Strip(lines[i + 1])]

\* the entries of the loop over enumerate(lines), from line i on
RECURSIVE SubtitleEntriesFrom(_, _, _)
SubtitleEntriesFrom(lines, i, time_per_line) ==
    IF i >= Len(lines) THEN <<>>
    ELSE (IF Strip(lines[i + 1]) = <<>> THEN <<>>
          ELSE <<SubtitleEntry(lines, i, time_per_line)>>)
             \o SubtitleEntriesFrom(lines, i + 1, time_per_line)

\* The external steps of add_subtitles; a fault names the one that fails.
SubsFaults == {"none", "probe", "encoder"}

\* add_subtitles(video_path, script_path) for a video that exists in
\* video_dir and a script of the given text, where the probe reports
\* `duration` seconds.  The result is the files afterwards and the record of
\* the call: the entries written to subtitles.srt.
add_subtitles(files, video_dir, text, duration, fault) ==
    LET srt_path    == Path(video_dir, "subtitles.srt")
        output_path == Path(video_dir, "final_video_with_subs.mp4")
        lines       == SubtitleLines(text)
        entries     == SubtitleEntriesFrom(lines, 0, TimePerLine(duration, lines))
    IN  IF fault = "probe"
        THEN [files |-> files \cup {srt_path},
              call  |-> [NoSubs EXCEPT !.outcome = "raised"]]
        ELSE IF fault = "encoder"
        THEN [files |-> files \cup {srt_path},
              call  |-> [outcome |-> "raised", duration |-> duration,
                         entries |-> entries]]
        ELSE [files |-> (files \cup {output_path}) \ {srt_path},
              call  |-> [outcome |-> "returned", duration |-> duration,
                         entries |-> entries]]

(***************************************************************************)
(* main_orchestration.py: run_pipeline                                     *)
(***************************************************************************)
\* the run variables of a state in which no run is under way
RunIdle ==
    /\ skip_upload = FALSE
    /\ calls = <<>>
    /\ raised = "none"
    /\ swallowed = {}
    /\ error = "none"
    /\ result = "running"

\* the values of the variables no function under study has touched
AuxIdle ==
    /\ texts = <<>>
    /\ estimates = <<>>

\* no call of generate_image_for_scene or generate_audio_for_text yet
LogIdle ==
    /\ image_log = <<>>
    /\ audio_log = <<>>

\* a value that is absent (None, or a key a dict does not have) is the empty
\* sequence, a value that is present the sequence of that one value
None == <<>>

Some(v) == <<v>>

NoPrompt == [kind |-> "none", topic |-> None, style |-> None, length |-> None]

NoArgs ==
    [kind |-> "none", topic |-> None, from_prompt_file |-> None,
     prompt_index |-> None, skip_upload |-> FALSE]

NoPrompts == [kind |-> "none", items |-> <<>>]

\* the main program has not started
MainIdle ==
    /\ env = {}
    /\ args = NoArgs
    /\ prompts = NoPrompts
    /\ day = 0
    /\ prompt = NoPrompt
    /\ topic = None
    /\ exit_code = -1

NeverWritten == [script |-> 0, final |-> 0]

\* the first run on an output directory that no run has written to
HistoryIdle ==
    /\ run = 1
    /\ written = NeverWritten

\* no call of cleanup_temp_files yet
CleanupIdle ==
    /\ fs_before = {}
    /\ cleaned = <<>>

\* the stage functions in the order run_pipeline calls them
Stages == <<"script", "video", "voice", "merge", "upload", "cleanup">>

\* (a variant of NextStage that uploads whatever skip_upload says)
NextStage_AlwaysUpload(stage, skip) ==
    CASE stage = "script"  -> "video"
      [] stage = "video"   -> "voice"
      [] stage = "voice"   -> "merge"
      [] stage = "merge"   -> "upload"
      [] stage = "upload"  -> "cleanup"
      [] stage = "cleanup" -> "done"

\* the position run_pipeline reaches when a stage function returns
NextStage(stage, skip) ==
    CASE stage = "script"  -> "video"
      [] stage = "video"   -> "voice"
      [] stage = "voice"   -> "merge"
      [] stage = "merge"   -> IF skip THEN "cleanup" ELSE "upload"
      [] stage = "upload"  -> "cleanup"
      [] stage = "cleanup" -> "done"

\* a stage function returns to run_pipeline
Returns(stage) ==
    /\ calls' = Append(calls, stage)
    /\ pc' = NextStage(stage, skip_upload)
    /\ result' = IF pc' = "done" THEN "True" ELSE "running"
    /\ UNCHANGED <<skip_upload, raised>>

\* a stage function raises: the except clause of run_pipeline returns False
Raises(stage, what) ==
    /\ calls' = Append(calls, stage)
    /\ pc' = "done"
    /\ raised' = stage
    /\ error' = what
    /\ result' = "False"
    /\ UNCHANGED <<skip_upload, swallowed>>

\* a failure inside a stage function that it catches itself
Swallows(stage, what) ==
    /\ swallowed' = swallowed \cup {stage}
    /\ error' = IF error = "none" THEN what ELSE error

(***************************************************************************)
(* The stage functions as run_pipeline calls them                          *)
(***************************************************************************)
OutFile(name) == Path("out", name)

\* the external encoder on a concat directive: it cannot succeed on a
\* directive that lists a file that does not exist (what it does with an empty
\* directive is left open: it may succeed or fail)
EncoderCanRead(paths, files) == \A i \in 1..Len(paths) : paths[i] \in files

\* (a variant of create_video_from_images that leaves the directive in place)
create_video_from_images_KeepsDirective(files, images, encoder_ok) ==
    [directive |-> FramesDirective(images),
     files     |-> IF encoder_ok
                   THEN files \cup {OutFile("frames.txt"), OutFile("video_without_audio.mp4")}
                   ELSE files \cup {OutFile("frames.txt")},
     outcome   |-> IF encoder_ok THEN "returned" ELSE "raised"]

\* create_video_from_images(scene_images, output_path): frames.txt is written
\* next to the output video and the encoder is run on it; when the encoder
\* succeeds the video is there and frames.txt is removed, when it fails the
\* error is logged and raised again, with frames.txt left behind
create_video_from_images(files, images, encoder_ok) ==
    [directive |-> FramesDirective(images),
     files     |-> IF encoder_ok
                   THEN (files \cup {OutFile("frames.txt"), OutFile("video_without_audio.mp4")})
                            \ {OutFile("frames.txt")}
                   ELSE files \cup {OutFile("frames.txt")},
     outcome   |-> IF encoder_ok THEN "returned" ELSE "raised"]

\* (a variant of NoClips that lets an empty clip list through)
NoClips_Ignored(audio_paths) == FALSE

\* the test combine_audio_clips makes before anything else
\* (if not audio_paths: raise ValueError)
NoClips(audio_paths) == audio_paths = <<>>

\* os.path.join(audio_dir, f"scene_{i:03d}.mp3"), i counted from 0
AudioPath(i) == [dir |-> "audio_clips", name |-> "scene_" \o Pad3(i) \o ".mp3"]

\* What happens to the speech request: "audio" is an answer that is saved,
\* "request error" a request that raises or an error status (a
\* RequestException), "other error" an exception of another kind, such as
\* one raised while the answer is written.
AudioResponses == {"audio", "request error", "other error"}

\* (a variant of generate_audio_for_text without the inner except clause)
generate_audio_for_text_NoEmptyFile(output_path, response, fallback_ok) ==
    [request  |-> output_path,
     response |-> response,
     fallback |-> IF response # "request error" THEN "none"
                  ELSE IF fallback_ok THEN "created" ELSE "failed",
     content  |-> IF response = "audio" THEN "speech"
                  ELSE IF response = "request error" /\ fallback_ok THEN "fallback speech"
                  ELSE "none",
     outcome  |-> IF response = "audio" \/ (response = "request error" /\ fallback_ok)
                  THEN "returned" ELSE "raised",
     returned |-> output_path]

\* generate_audio_for_text(text, voice_id, api_key, output_path): one
\* request; the answer is written to the output path; on a RequestException
\* create_placeholder_audio is tried, and if it raises an empty file is
\* written; an exception of another kind is not caught.  The record says what
\* was requested, what ended up at the output path ("none": nothing was
\* written) and how the call ended.
generate_audio_for_text(output_path, response, fallback_ok) ==
    [request  |-> output_path,
     response |-> response,
     fallback |-> IF response # "request error" THEN "none"
                  ELSE IF fallback_ok THEN "created" ELSE "failed",
     content  |-> CASE response = "audio" -> "speech"
                    [] response = "request error" ->
                           IF fallback_ok THEN "fallback speech" ELSE "empty"
                    [] response = "other error" -> "none",
     outcome  |-> IF response = "other error" THEN "raised" ELSE "returned",
     returned |-> output_path]

\* whether the loop of synthesize_voice makes a clip for the scene
\* (if not narration_text.strip(): continue)
SpeaksScene(scene) == Strip(scene.narration) # <<>>

\* the clip paths the loop of synthesize_voice appends for the scenes from
\* number i on (i counted from 0)
RECURSIVE VoiceClipsFrom(_, _)
VoiceClipsFrom(scs, i) ==
    IF i >= Len(scs) THEN <<>>
    ELSE (IF SpeaksScene(scs[i + 1]) THEN <<AudioPath(i)>> ELSE <<>>)
             \o VoiceClipsFrom(scs, i + 1)

VoiceClips(scs) == VoiceClipsFrom(scs, 0)

(***************************************************************************)
(* cleanup.py: cleanup_temp_files                                          *)
(***************************************************************************)
\* the temporary directories, in the order they are removed
temp_dirs == <<"video_frames", "audio_clips">>

keep_patterns == {"final_video.mp4", "script.txt", "script_metadata.json"}

\* pattern in file_path.name
NameContains(name, pattern) ==
    \E i \in 0..(Len(name) - Len(pattern)) : SubSeq(name, i + 1, i + Len(pattern)) = pattern

\* (a variant of Removes that ignores keep_final)
Removes_AnyMode(name, keep_final) ==
    ~(\E pattern \in keep_patterns : NameContains(name, pattern))

\* whether the loop over the output directory removes the file
Removes(name, keep_final) ==
    IF keep_final
    THEN /\ ~(\E pattern \in keep_patterns : NameContains(name, pattern))
         /\ ~NameContains(name, "final_video")
    ELSE ~(\E pattern \in keep_patterns : NameContains(name, pattern))

\* the files of the temporary directory number k
TempFiles(files, k) == {f \in files : f.dir = temp_dirs[k]}

\* the files the loop over the output directory removes
Removable(files, keep_final) ==
    {f \in files : f.dir = "out" /\ Removes(f.name, keep_final)}

\* A fault of cleanup_temp_files names the step that raises: the rmtree of a
\* temporary directory or the first os.remove of the loop.  The failing step
\* has removed nothing.
NoFault == [step |-> "none"]

\* the faults that can occur on the files: a step that has nothing to
\* remove is not attempted
CleanupFaults(files, keep_final) ==
    {NoFault}
      \cup {[step |-> temp_dirs[k]] : k \in {j \in 1..Len(temp_dirs) : TempFiles(files, j) # {}}}
      \cup {[step |-> "remove"] : f \in Removable(files, keep_final)}

\* (a variant of cleanup_temp_files that stops removing temporary directories
\* after the first one it finds)
cleanup_temp_files_FirstDirOnly(files, keep_final, fault) ==
    LET found == {j \in 1..Len(temp_dirs) : TempFiles(files, j) # {}}
        first == {j \in found : \A i \in found : j <= i}
    IN  IF fault.step # "none" THEN files
        ELSE files \ (UNION {TempFiles(files, j) : j \in first}
                        \cup Removable(files, keep_final))

\* (a variant of cleanup_temp_files that leaves the temporary directories)
cleanup_temp_files_KeepsDirs(files, keep_final, fault) ==
    IF fault.step # "none" THEN files
    ELSE files \ Removable(files, keep_final)

\* the files after cleanup_temp_files(output_dir, keep_final)
cleanup_temp_files(files, keep_final, fault) ==
    LET before(k) == UNION {TempFiles(files, j) : j \in 1..(k - 1)}
        all_dirs  == before(Len(temp_dirs) + 1)
    IN  IF fault.step = "none"
        THEN files \ (all_dirs \cup Removable(files, keep_final))
        ELSE IF fault.step = "remove"
        THEN files \ all_dirs
        ELSE LET k == CHOOSE j \in 1..Len(temp_dirs) : temp_dirs[j] = fault.step
             IN  files \ before(k)

\* (a variant of cleanup_returned that reports success whatever happened)
cleanup_returned_AlwaysTrue(fault) == "True"

\* what cleanup_temp_files returns
cleanup_returned(fault) == IF fault.step = "none" THEN "True" ELSE "False"

\* cleanup_temp_files is called on the files fs and returns
CleanupCall(keep, fault) ==
    /\ fs_before' = fs
    /\ fs' = cleanup_temp_files(fs, keep, fault)
    /\ cleaned' = Append(cleaned, [keep_final |-> keep, returned |-> cleanup_returned(fault)])

(***************************************************************************)
(* SpecScenes: the functions of a script text, applied to every text of    *)
(* at most MaxLen characters                                               *)
(***************************************************************************)
ScenesInit ==
    /\ pc = "text"
    /\ script \in Texts(MaxLen)
    /\ scenes = <<>>
    /\ scene_images = <<>>
    /\ frames = <<>>
    /\ audio_clips = <<>>
    /\ metadata = NoMetadata
    /\ fs = {}
    /\ merge = NoMerge
    /\ subs = NoSubs
    /\ RunIdle
    /\ AuxIdle
    /\ CleanupIdle
    /\ LogIdle
    /\ HistoryIdle
    /\ MainIdle

\* extract_scenes_from_script on the text
ExtractScenes ==
    /\ pc = "text"
    /\ pc' = "parsed"
    /\ scenes' = extract_scenes_from_script(script)
    /\ UNCHANGED <<historyVars, script, scene_images, frames, audio_clips, metadata, fs, merge, subs, runVars, auxVars, cleanupVars, logVars, mainVars>>

\* the scene entries of create_video_content and the directive that
\* create_video_from_images writes for them
SceneTimings ==
    /\ pc = "text"
    /\ pc' = "frames"
    /\ scenes' = extract_scenes_from_script(script)
    /\ scene_images' = SceneImages(scenes')
    /\ frames' = FramesDirective(scene_images')
    /\ UNCHANGED <<historyVars, script, audio_clips, metadata, fs, merge, subs, runVars, auxVars, cleanupVars, logVars, mainVars>>

\* the metadata generate_content_script computes for the text
ScriptMetadata ==
    /\ pc = "text"
    /\ pc' = "metadata"
    /\ metadata' = script_metadata(script)
    /\ UNCHANGED <<historyVars, script, scenes, scene_images, frames, audio_clips, fs, merge, subs, runVars, auxVars, cleanupVars, logVars, mainVars>>

ScenesNext == ExtractScenes \/ SceneTimings \/ ScriptMetadata

SpecScenes == ScenesInit /\ [][ScenesNext]_vars

(***************************************************************************)
(* Reference notions the properties of the scene parser are stated in:     *)
(* delimiter pairs as sets of positions, independent of the scanning       *)
(* operators above                                                         *)
(***************************************************************************)
\* <<b, e>> is a pair of s: it opens at b, closes at e, and neither a closing
\* delimiter nor a line break lies between
PairsOf(s, open, close) ==
    {q \in (1..Len(s)) \X (1..Len(s)) :
        /\ q[1] < q[2]
        /\ s[q[1]] = open
        /\ s[q[2]] = close
        /\ \A k \in (q[1] + 1)..(q[2] - 1) : s[k] # close /\ s[k] # NL}

\* the pairs a left-to-right reading takes: a pair is taken unless it opens
\* inside a pair taken before it
TakenPairs(s, open, close) ==
    CHOOSE T \in SUBSET PairsOf(s, open, close) :
        \A q \in PairsOf(s, open, close) :
            q \in T <=> ~(\E r \in T : r[1] < q[1] /\ q[1] <= r[2])

CoveredBy(T) == UNION {q[1]..q[2] : q \in T}

\* s without the positions in gone
Without(s, gone) ==
    LET keep == (1..Len(s)) \ gone
        at(i) == CHOOSE k \in keep : Cardinality({j \in keep : j <= k}) = i
    IN  [i \in 1..Cardinality(keep) |-> s[at(i)]]

\* the contents of the pairs in T, in order of appearance
ContentsOf(s, T) ==
    LET at(i) == CHOOSE q \in T : Cardinality({r \in T : r[1] <= q[1]}) = i
    IN  [i \in 1..Cardinality(T) |-> SubSeq(s, at(i)[1] + 1, at(i)[2] - 1)]

\* s without leading and trailing whitespace
Trimmed(s) ==
    LET solid == {i \in 1..Len(s) : s[i] \notin Whitespace}
    IN  IF solid = {} THEN <<>>
        ELSE SubSeq(s, CHOOSE i \in solid : \A j \in solid : i <= j,
                       CHOOSE i \in solid : \A j \in solid : i >= j)

\* the number of words of s: the positions where a word starts
WordStarts(s) ==
    {i \in 1..Len(s) : s[i] \notin Whitespace /\ (i = 1 \/ s[i - 1] \in Whitespace)}

\* the paragraph with its bracket pairs removed and then the parenthesis
\* pairs of the remaining text removed, trimmed
NarrationInTurn(para) ==
    LET rest == Without(para, CoveredBy(TakenPairs(para, "[", "]")))
    IN  Trimmed(Without(rest, CoveredBy(TakenPairs(rest, "(", ")"))))

\* the paragraph with its bracket pairs and its parenthesis pairs (the pairs
\* whose contents are the description and the visual cues) removed, trimmed
NarrationAtOnce(para) ==
    Trimmed(Without(para, CoveredBy(TakenPairs(para, "[", "]"))
                              \cup CoveredBy(TakenPairs(para, "(", ")"))))

DescriptionRef(para) ==
    LET T == TakenPairs(para, "[", "]")
    IN  IF T = {} THEN GeneralScene ELSE ContentsOf(para, T)[1]

CuesRef(para) == ContentsOf(para, TakenPairs(para, "(", ")"))

\* the scenes of a text, given what the narration of a paragraph is
ScenesRef(text, Narration(_)) ==
    LET paras == Paragraphs(text)
        kept  == {k \in 1..Len(paras) : Narration(paras[k]) # <<>>}
        at(i) == CHOOSE k \in kept : Cardinality({j \in kept : j <= k}) = i
    IN  [i \in 1..Cardinality(kept) |->
            [scene_description |-> DescriptionRef(paras[at(i)]),
             narration         |-> Narration(paras[at(i)]),
             visual_cues       |-> CuesRef(paras[at(i)])]]

\* a text that is one bracket pair and nothing else, such as "[Scene]"
OnlyBracketPair(text) ==
    Len(text) >= 2 /\ <<1, Len(text)>> \in PairsOf(text, "[", "]")

(***************************************************************************)
(* Properties of the scene parser                                          *)
(***************************************************************************)
\* C8: every scene extract_scenes_from_script returns has a narration that is
\* not empty (and starts and ends with a non-whitespace character); a
\* paragraph whose text is empty once bracket and parenthesis pairs are
\* removed and whitespace is trimmed, such as one that is only a bracket
\* pair, gives no scene, and every other paragraph gives exactly one.
C8_NarrationNeverEmpty ==
    pc = "parsed" =>
        /\ \A i \in 1..Len(scenes) :
              /\ scenes[i].narration # <<>>
              /\ scenes[i].narration = Trimmed(scenes[i].narration)
        /\ Len(scenes) =
              Cardinality({k \in 1..Len(Paragraphs(script)) :
                              NarrationInTurn(Paragraphs(script)[k]) # <<>>})
        /\ OnlyBracketPair(script) => scenes = <<>>

\* a text with a paragraph that is dropped and a paragraph that is kept
C8_Witness ==
    /\ pc = "parsed"
    /\ Len(scenes) = 1
    /\ Len(Paragraphs(script)) = 2
    /\ OnlyBracketPair(Paragraphs(script)[1])

\* C9 (as amended): the scenes are, in paragraph order, one per kept
\* paragraph, with the description the content of the first bracket pair (or
\* "General scene"), visual_cues the contents of all parenthesis pairs of the
\* paragraph in order, and the narration the paragraph with every bracket pair
\* removed and then every parenthesis pair of the remaining text removed,
\* trimmed.
C9_ScenesInTurn ==
    pc = "parsed" => scenes = ScenesRef(script, NarrationInTurn)

\* a scene with a description from a bracket pair and a visual cue, from a
\* paragraph whose pairs do not overlap
C9_Witness ==
    /\ pc = "parsed"
    /\ CoveredBy(TakenPairs(script, "[", "]")) \cap CoveredBy(TakenPairs(script, "(", ")")) = {}
    /\ \E i \in 1..Len(scenes) :
          /\ scenes[i].scene_description # GeneralScene
          /\ scenes[i].visual_cues # <<>>

\* C9 (as claimed): ... the narration is the paragraph with every bracket pair
\* and every parenthesis pair removed, trimmed.
C9_ScenesAtOnce ==
    pc = "parsed" => scenes = ScenesRef(script, NarrationAtOnce)

\* C10: the duration written for a scene in the concat directive is
\* max(1.0, word_count(narration) / 2.5): at least one second, exactly one
\* second for a narration of one or two words, and word_count / 2.5 when that
\* is at least one second; the metadata's estimated_duration_seconds is
\* word_count(script) / 2.5 with no floor.
C10_DurationFloor ==
    /\ pc = "frames" =>
          /\ Len(frames) = (IF scenes = <<>> THEN 0 ELSE 2 * Len(scenes) + 1)
          /\ \A i \in 1..Len(scenes) :
                LET words == Cardinality(WordStarts(scenes[i].narration))
                    entry == frames[2 * i]
                IN  /\ entry.kind = "duration"
                    /\ entry.value >= 5
                    /\ words \in {1, 2} => entry.value = 5
                    /\ 2 * words >= 5 => entry.value = 2 * words
    /\ pc = "metadata" =>
          metadata.estimated_duration_seconds = 2 * Cardinality(WordStarts(script))

\* a one-word narration whose directive entry is one second
C10_Witness ==
    /\ pc = "frames"
    /\ \E i \in 1..Len(scenes) :
          /\ Cardinality(WordStarts(scenes[i].narration)) = 1
          /\ frames[2 * i].value = 5

(***************************************************************************)
(* SpecMerge: combine_audio_video called on probed durations of 1..MaxDur  *)
(* seconds, with and without an output directory                           *)
(***************************************************************************)
\* longest probed duration enumerated, in seconds
MaxDur == 10

MergeInit ==
    /\ pc = "call"
    /\ script = <<>>
    /\ scenes = <<>>
    /\ scene_images = <<>>
    /\ frames = <<>>
    /\ audio_clips = <<>>
    /\ metadata = NoMetadata
    /\ \E video_dir \in Dirs, audio_dir \in Dirs :
          fs \in SUBSET {Path(video_dir, "video_without_audio.mp4"),
                         Path(audio_dir, "voice_audio.mp3"),
                         Relative("temp_adjusted_video.mp4")}
    /\ merge = NoMerge
    /\ subs = NoSubs
    /\ RunIdle
    /\ AuxIdle
    /\ CleanupIdle
    /\ LogIdle
    /\ HistoryIdle
    /\ MainIdle

\* one call of combine_audio_video
CombineAudioVideo ==
    /\ pc = "call"
    /\ \E video_dir \in Dirs, audio_dir \in Dirs, given_dir \in Dirs \cup {"none"},
          audio_duration \in 1..MaxDur, video_duration \in 1..MaxDur,
          fault \in MergeFaults :
          LET r == combine_audio_video(fs, Path(video_dir, "video_without_audio.mp4"),
                                       Path(audio_dir, "voice_audio.mp3"), given_dir,
                                       audio_duration, video_duration, fault)
          IN  /\ fs' = r.files
              /\ merge' = r.call
    /\ pc' = "called"
    /\ UNCHANGED <<historyVars, sceneVars, subs, runVars, auxVars, cleanupVars, logVars, mainVars>>

MergeNext == CombineAudioVideo

SpecMerge == MergeInit /\ [][MergeNext]_vars

\* C3: combine_audio_video stretches the video exactly when the audio is
\* longer than the video, by the factor audio_duration / video_duration
\* (audio 10 and video 5 give exactly 2); otherwise, equal durations included,
\* no stretched video is made and the original video is the input of the merge.
C3_StretchIffAudioLonger ==
    merge.outcome = "returned" =>
        /\ merge.stretched <=> merge.audio_duration > merge.video_duration
        /\ merge.stretched =>
              /\ merge.adjustment_factor[1] * merge.video_duration
                    = merge.adjustment_factor[2] * merge.audio_duration
              /\ merge.merge_input = Path(merge.output_dir, "temp_adjusted_video.mp4")
        /\ (merge.audio_duration = 10 /\ merge.video_duration = 5)
              => merge.adjustment_factor = <<2, 1>>
        /\ ~merge.stretched =>
              /\ merge.merge_input = merge.video_path
              /\ merge.input_duration = merge.video_duration
              /\ merge.adjustment_factor = One

\* audio of 10 seconds on a video of 5 seconds: stretched by 2
C3_Witness ==
    /\ merge.outcome = "returned"
    /\ merge.audio_duration = 10
    /\ merge.video_duration = 5
    /\ merge.stretched
    /\ merge.adjustment_factor = <<2, 1>>

\* C4: after a successful merge the final video lasts as long as the shorter
\* of the (possibly stretched) video and the audio; when the audio was longer
\* than the video, the stretched video lasts audio_duration and so does the
\* final video.
C4_FinalDuration ==
    merge.outcome = "returned" =>
        /\ merge.final_duration <= merge.audio_duration
        /\ merge.final_duration <= merge.input_duration
        /\ merge.final_duration \in {merge.audio_duration, merge.input_duration}
        /\ merge.audio_duration > merge.video_duration =>
              /\ merge.input_duration = merge.audio_duration
              /\ merge.final_duration = merge.audio_duration
        /\ merge.audio_duration <= merge.video_duration =>
              merge.input_duration = merge.video_duration

\* a merge of an audio longer than the video, by a factor that is no integer
C4_Witness ==
    /\ merge.outcome = "returned"
    /\ merge.audio_duration = 7
    /\ merge.video_duration = 3
    /\ merge.final_duration = 7

\* C5: when combine_audio_video made a stretched video and returns, the file
\* temp_adjusted_video.mp4 of the output directory no longer exists.
C5_TempVideoRemoved ==
    (merge.outcome = "returned" /\ merge.stretched) =>
        Path(merge.output_dir, "temp_adjusted_video.mp4") \notin fs

(***************************************************************************)
(* SpecSubs: add_subtitles called on every script of at most MaxSubsLen    *)
(* characters (letters, blanks, line breaks) and a probed duration of      *)
(* 1..MaxSubsDur seconds                                                   *)
(***************************************************************************)
\* longest script text enumerated for the subtitles
MaxSubsLen == 5

\* longest probed video duration enumerated for the subtitles, in seconds
MaxSubsDur == 6

SubsAlphabet == {"a", " ", NL}

SubsInit ==
    /\ pc = "call"
    /\ script \in UNION {[1..k -> SubsAlphabet] : k \in 0..MaxSubsLen}
    /\ scenes = <<>>
    /\ scene_images = <<>>
    /\ frames = <<>>
    /\ audio_clips = <<>>
    /\ metadata = NoMetadata
    /\ fs = {Path("out", "final_video.mp4"), Path("out", "script.txt")}
    /\ merge = NoMerge
    /\ subs = NoSubs
    /\ RunIdle
    /\ AuxIdle
    /\ CleanupIdle
    /\ LogIdle
    /\ HistoryIdle
    /\ MainIdle

\* one call of add_subtitles
AddSubtitles ==
    /\ pc = "call"
    /\ \E duration \in 1..MaxSubsDur, fault \in SubsFaults :
          LET r == add_subtitles(fs, "out", script, duration, fault)
          IN  /\ fs' = r.files
              /\ subs' = r.call
    /\ pc' = "called"
    /\ UNCHANGED <<historyVars, sceneVars, merge, runVars, auxVars, cleanupVars, logVars, mainVars>>

SubsNext == AddSubtitles

SpecSubs == SubsInit /\ [][SubsNext]_vars

\* the lines of the script that are not blank
NonBlankLines(text) ==
    {k \in 1..Len(Split(text, <<NL>>)) :
        \E i \in 1..Len(Split(text, <<NL>>)[k]) :
            Split(text, <<NL>>)[k][i] \notin Whitespace}

\* C6: for a script with N non-blank lines and a probed duration D,
\* add_subtitles writes one entry per non-blank line, every entry spans
\* exactly D / N seconds, and consecutive entries are contiguous, so that
\* together they cover [0, D]; also for scripts with blank lines between
\* non-blank lines.
C6_SubtitlesPartition ==
    LET N == Cardinality(NonBlankLines(script))
        e == subs.entries
    IN  (subs.outcome = "returned" /\ N > 0) =>
            /\ Len(e) = N
            /\ \A k \in 1..Len(e) :
                  (e[k].end_time[1] * e[k].start_time[2]
                      - e[k].start_time[1] * e[k].end_time[2]) * N
                    = subs.duration * e[k].start_time[2] * e[k].end_time[2]
            /\ \A k \in 1..(Len(e) - 1) : e[k].end_time = e[k + 1].start_time
            /\ e[1].start_time = Seconds(0, 1)
            /\ e[Len(e)].end_time = Seconds(subs.duration, 1)

(***************************************************************************)
(* Spec: one run of run_pipeline on a fresh output directory, for every    *)
(* script text of at most MaxScriptLen characters the text service may     *)
(* return and every failure of an external service or tool                 *)
(***************************************************************************)
\* longest script text enumerated for the pipeline run
MaxScriptLen == 4

\* longest probed duration enumerated in the pipeline run, in seconds
MaxProbe == 2

\* the characters of the scripts of a pipeline run: the two brackets, each of
\* which is a word of the narration when it has no partner, and a line break
ScriptAlphabet == {"[", "]", NL}

ScriptTexts == UNION {[1..k -> ScriptAlphabet] : k \in 0..MaxScriptLen}

Init ==
    /\ pc = "script"
    /\ script = <<>>
    /\ scenes = <<>>
    /\ scene_images = <<>>
    /\ frames = <<>>
    /\ audio_clips = <<>>
    /\ metadata = NoMetadata
    /\ fs = {}
    /\ merge = NoMerge
    /\ subs = NoSubs
    /\ skip_upload \in BOOLEAN
    /\ calls = <<>>
    /\ raised = "none"
    /\ swallowed = {}
    /\ error = "none"
    /\ result = "running"
    /\ AuxIdle
    /\ CleanupIdle
    /\ LogIdle
    /\ HistoryIdle
    /\ MainIdle

\* generate_content_script: the text service answers with a text, which is
\* saved with its metadata, or fails
GenerateScriptStage ==
    /\ pc = "script"
    /\ \/ \E text \in ScriptTexts :
             /\ script' = text
             /\ metadata' = script_metadata(text)
             /\ fs' = fs \cup {OutFile("script.txt"), OutFile("script_metadata.json")}
             /\ written' = [written EXCEPT !.script = run]
             /\ Returns("script")
             /\ UNCHANGED <<swallowed, error>>
       \/ /\ Raises("script", "text service")
          /\ UNCHANGED <<script, metadata, fs, written>>
    /\ UNCHANGED <<run, scenes, scene_images, frames, audio_clips, merge, subs, auxVars, cleanupVars, logVars, mainVars>>

\* create_video_content: for each scene in turn one call of
\* generate_image_for_scene and one image entry with the path it returns;
\* then the directive and the encoder, which cannot succeed unless every
\* listed path holds an image.  An exception in the loop is logged and
\* raised again.
VideoStage ==
    /\ pc = "video"
    /\ scenes' = extract_scenes_from_script(script)
    /\ \E answers \in [1..Len(scenes') -> ImageResponses \X BOOLEAN] :
          LET made   == [i \in 1..Len(scenes') |->
                            generate_image_for_scene(ImagePath(i - 1), answers[i][1],
                                                     answers[i][2], Base64Imported(FALSE))]
              stops  == {i \in 1..Len(made) : made[i].outcome = "raised"}
              n      == IF stops = {} THEN Len(made)
                        ELSE CHOOSE i \in stops : \A j \in stops : i <= j
              log    == SubSeq(made, 1, n)
              files  == fs \cup {log[i].request : i \in {j \in 1..n : log[j].content # "none"}}
              images == {log[i].request :
                            i \in {j \in 1..n : log[j].content \in {"image", "placeholder"}}}
              listed == [i \in 1..Len(scene_images') |-> scene_images'[i].image_path]
          IN  /\ image_log' = log
              /\ IF stops # {}
                 THEN /\ scene_images' = SceneImages(SubSeq(scenes', 1, n - 1))
                      /\ frames' = frames
                      /\ fs' = files
                      /\ Raises("video", "image")
                 ELSE /\ scene_images' = SceneImages(scenes')
                      /\ \E encoder_ok \in {ok \in BOOLEAN : ok => EncoderCanRead(listed, images)} :
                            LET video == create_video_from_images(files, scene_images', encoder_ok)
                            IN  /\ frames' = video.directive
                                /\ fs' = video.files
                                /\ IF video.outcome = "returned"
                                   THEN Returns("video") /\ UNCHANGED <<swallowed, error>>
                                   ELSE Raises("video", "encoder")
    /\ UNCHANGED <<historyVars, script, audio_clips, metadata, merge, subs, auxVars, cleanupVars, audio_log, mainVars>>

\* synthesize_voice: for each scene with a narration, in turn, one call of
\* generate_audio_for_text and one clip with the path it returns; then
\* combine_audio_clips, which raises on an empty clip list and otherwise
\* writes the directive and runs the encoder.  An exception in the loop or in
\* combine_audio_clips is logged and raised again.
VoiceStage ==
    /\ pc = "voice"
    /\ scenes' = extract_scenes_from_script(script)
    /\ \E answers \in [1..Len(VoiceClips(scenes')) -> AudioResponses \X BOOLEAN] :
          LET paths == VoiceClips(scenes')
              made  == [i \in 1..Len(paths) |->
                           generate_audio_for_text(paths[i], answers[i][1], answers[i][2])]
              stops == {i \in 1..Len(made) : made[i].outcome = "raised"}
              n     == IF stops = {} THEN Len(made)
                       ELSE CHOOSE i \in stops : \A j \in stops : i <= j
              log   == SubSeq(made, 1, n)
              files == fs \cup {log[i].request : i \in {j \in 1..n : log[j].content # "none"}}
              clips == [i \in 1..(IF stops = {} THEN n ELSE n - 1) |-> log[i].returned]
          IN  /\ audio_log' = log
              /\ audio_clips' = clips
              /\ IF stops # {}
                 THEN fs' = files /\ Raises("voice", "clip")
                 ELSE IF NoClips(clips)
                 THEN fs' = files /\ Raises("voice", "no clips")
                 ELSE \/ /\ fs' = (files \cup {OutFile("voice_audio.mp3")}) \ {OutFile("audio_list.txt")}
                         /\ Returns("voice")
                         /\ UNCHANGED <<swallowed, error>>
                      \/ /\ fs' = files \cup {OutFile("audio_list.txt")}
                         /\ Raises("voice", "encoder")
    /\ UNCHANGED <<historyVars, script, scene_images, frames, metadata, merge, subs, auxVars, cleanupVars, image_log, mainVars>>

\* combine_audio_video on the silent video and the narration track
MergeStage ==
    /\ pc = "merge"
    /\ \E audio_duration \in 1..MaxProbe, video_duration \in 1..MaxProbe,
          fault \in MergeFaults :
          LET r == combine_audio_video(fs, OutFile("video_without_audio.mp4"),
                                       OutFile("voice_audio.mp3"), "out",
                                       audio_duration, video_duration, fault)
          IN  /\ fs' = r.files
              /\ merge' = r.call
              /\ IF r.call.outcome = "returned"
                 THEN /\ written' = [written EXCEPT !.final = run]
                      /\ Returns("merge")
                      /\ UNCHANGED <<swallowed, error>>
                 ELSE /\ Raises("merge", fault)
                      /\ UNCHANGED written
    /\ UNCHANGED <<run, sceneVars, subs, auxVars, cleanupVars, logVars, mainVars>>

\* upload_to_youtube: it returns the URL, or logs its failure and returns None
UploadStage ==
    /\ pc = "upload"
    /\ \/ UNCHANGED <<swallowed, error>>
       \/ Swallows("upload", "upload")
    /\ Returns("upload")
    /\ UNCHANGED <<historyVars, sceneVars, fs, merge, subs, auxVars, cleanupVars, logVars, mainVars>>

\* cleanup_temp_files(output_dir, keep_final=True): it returns True, or logs
\* its failure and returns False
CleanupStage ==
    /\ pc = "cleanup"
    /\ \E fault \in CleanupFaults(fs, TRUE) :
          /\ CleanupCall(TRUE, fault)
          /\ IF fault = NoFault
             THEN UNCHANGED <<swallowed, error>>
             ELSE Swallows("cleanup", fault.step)
    /\ Returns("cleanup")
    /\ UNCHANGED <<historyVars, sceneVars, merge, subs, auxVars, logVars, mainVars>>

Next ==
    \/ GenerateScriptStage
    \/ VideoStage
    \/ VoiceStage
    \/ MergeStage
    \/ UploadStage
    \/ CleanupStage

Spec == Init /\ [][Next]_vars

(***************************************************************************)
(* Properties of a pipeline run                                            *)
(***************************************************************************)
\* the stages a complete run calls
StagesOfRun(skip) ==
    IF skip THEN <<"script", "video", "voice", "merge", "cleanup">>
    ELSE <<"script", "video", "voice", "merge", "upload", "cleanup">>

\* C1: run_pipeline calls the stages at most once each and in the order
\* script, video, voice, merge, upload, cleanup; a stage starts only after the
\* one before it returned; upload is called only when skip_upload is false,
\* and cleanup follows the merge when it is skipped; once a stage raises no
\* later stage is called and run_pipeline returns False.
C1_StageOrder ==
    /\ Len(calls) <= Len(StagesOfRun(skip_upload))
    /\ calls = SubSeq(StagesOfRun(skip_upload), 1, Len(calls))
    /\ raised # "none" =>
          /\ calls # <<>>
          /\ calls[Len(calls)] = raised
          /\ pc = "done"
          /\ result = "False"
    /\ result = "True" => (raised = "none" /\ calls = StagesOfRun(skip_upload))
    /\ result = "False" => raised # "none"
    /\ (pc = "done") <=> (result # "running")
    /\ pc # "done" => (raised = "none" /\ pc = StagesOfRun(skip_upload)[Len(calls) + 1])

\* a complete run without upload: cleanup follows the merge
C1_Witness ==
    /\ skip_upload
    /\ result = "True"
    /\ calls = <<"script", "video", "voice", "merge", "cleanup">>

\* C2: every stage function but cleanup re-raises the errors that occur in
\* it, so that a failure of any of them, upload included, makes run_pipeline
\* return False; only cleanup swallows its errors.
C2_OnlyCleanupSwallows ==
    /\ swallowed \subseteq {"cleanup"}
    /\ (pc = "done" /\ (raised # "none" \/ swallowed \ {"cleanup"} # {}))
          => result = "False"

\* C7: the image entries of create_video_content and the clips of
\* synthesize_voice are as many and in the same order: both loops run over
\* the same scenes, the narration test of the audio loop skips none of them,
\* and image and clip number i belong to scene number i.
C7_ImagesMatchClips ==
    (\E k \in 1..Len(calls) : calls[k] = "voice") /\ error # "clip" =>
        /\ Len(scene_images) = Len(scenes)
        /\ Len(audio_clips) = Len(scene_images)
        /\ \A i \in 1..Len(scene_images) :
              /\ scene_images[i].image_path = ImagePath(i - 1)
              /\ scene_images[i].duration
                    = 2 * Cardinality(WordStarts(scenes[i].narration))
        /\ \A i \in 1..Len(audio_clips) : audio_clips[i] = AudioPath(i - 1)

\* a run whose script has two scenes, after the voice stage has returned
C7_Witness ==
    /\ pc = "merge"
    /\ Len(scene_images) = 2
    /\ Len(audio_clips) = 2
    /\ Len(Paragraphs(script)) = 2

(***************************************************************************)
(* SpecEstimate: the two duration estimates (the scene loop of             *)
(* create_video_content with the directive of create_video_from_images,    *)
(* and the metadata of generate_content_script), applied to every pair of  *)
(* texts of at most MaxWordsLen characters, each unordered pair once (the  *)
(* comparison of two texts does not depend on their order)                 *)
(***************************************************************************)
\* longest narration text enumerated for the duration estimates
MaxWordsLen == 5

WordsAlphabet == {"a", " ", NL}

WordsTexts == UNION {[1..k -> WordsAlphabet] : k \in 0..MaxWordsLen}

\* the rank of a text among the texts of its length
RECURSIVE TextRank(_)
TextRank(text) ==
    IF text = <<>> THEN 0
    ELSE LET rank == CASE Head(text) = "a" -> 0 [] Head(text) = " " -> 1 [] OTHER -> 2
         IN  rank + 3 * TextRank(Tail(text))

\* a total order of the texts: by length, then by rank
TextOrder(a, b) ==
    \/ Len(a) < Len(b)
    \/ Len(a) = Len(b) /\ TextRank(a) <= TextRank(b)

EstimateInit ==
    /\ pc = "texts"
    /\ script = <<>>
    /\ scenes = <<>>
    /\ scene_images = <<>>
    /\ frames = <<>>
    /\ audio_clips = <<>>
    /\ metadata = NoMetadata
    /\ fs = {}
    /\ merge = NoMerge
    /\ subs = NoSubs
    /\ RunIdle
    /\ texts \in {pair \in WordsTexts \X WordsTexts : TextOrder(pair[1], pair[2])}
    /\ estimates = <<>>
    /\ CleanupIdle
    /\ LogIdle
    /\ HistoryIdle
    /\ MainIdle

\* the scene with the given narration
NarrationScene(text) ==
    [scene_description |-> GeneralScene, narration |-> text, visual_cues |-> <<>>]

\* the duration of each text as the scene loop of create_video_content
\* estimates it, and as create_video_from_images writes it to the directive
SceneEstimates ==
    /\ pc = "texts"
    /\ pc' = "scene estimates"
    /\ estimates' =
          [i \in 1..Len(texts) |->
              LET image == SceneImage(NarrationScene(texts[i]), i - 1)
              IN  [duration |-> image.duration,
                   floored  |-> DirectiveDuration(image.duration)]]
    /\ UNCHANGED <<historyVars, sceneVars, fs, merge, subs, runVars, texts, cleanupVars, logVars, mainVars>>

\* the duration of each text as generate_content_script estimates it
ScriptEstimates ==
    /\ pc = "texts"
    /\ pc' = "script estimates"
    /\ estimates' =
          [i \in 1..Len(texts) |->
              [duration |-> script_metadata(texts[i]).estimated_duration_seconds,
               floored  |-> script_metadata(texts[i]).estimated_duration_seconds]]
    /\ UNCHANGED <<historyVars, sceneVars, fs, merge, subs, runVars, texts, cleanupVars, logVars, mainVars>>

EstimateNext == SceneEstimates \/ ScriptEstimates

SpecEstimate == EstimateInit /\ [][EstimateNext]_vars

\* C11: the estimated duration is monotone in the word count: of two texts
\* the one with fewer words never gets the longer estimate, both for the
\* estimate word_count / 2.5 (scene loop and script metadata) and for the
\* floored value max(1.0, word_count / 2.5) written to the directive.
C11_DurationMonotone ==
    pc \in {"scene estimates", "script estimates"} =>
        \A i, j \in 1..Len(texts) :
            Cardinality(WordStarts(texts[i])) < Cardinality(WordStarts(texts[j])) =>
                /\ estimates[i].duration <= estimates[j].duration
                /\ estimates[i].floored <= estimates[j].floored

\* one word against three: the floor applies to the first text only
C11_Witness ==
    /\ pc = "scene estimates"
    /\ Cardinality(WordStarts(texts[1])) = 1
    /\ Cardinality(WordStarts(texts[2])) = 3
    /\ estimates[1].duration < estimates[2].duration
    /\ estimates[1].floored = MinSceneFifths
    /\ estimates[2].floored > MinSceneFifths

(***************************************************************************)
(* SpecCleanup: cleanup_temp_files called up to MaxCleanups times, with    *)
(* either value of keep_final, on every directory made of CleanupFiles     *)
(***************************************************************************)
\* most calls of cleanup_temp_files on one directory
MaxCleanups == 2

\* top-level file names: the final artifacts, intermediate files of the
\* pipeline, and names that contain an allow-list name or the marker
CleanupNames ==
    {"final_video.mp4", "script.txt", "video_without_audio.mp4",
     "final_video_with_subs.mp4", "old_script.txt.bak"}

CleanupFiles ==
    {Path("out", name) : name \in CleanupNames}
      \cup {ImagePath(0), AudioPath(0), Path("audio_clips", "final_video.mp4")}

CleanupInit ==
    /\ pc = "directory"
    /\ script = <<>>
    /\ scenes = <<>>
    /\ scene_images = <<>>
    /\ frames = <<>>
    /\ audio_clips = <<>>
    /\ metadata = NoMetadata
    /\ fs \in SUBSET CleanupFiles
    /\ merge = NoMerge
    /\ subs = NoSubs
    /\ RunIdle
    /\ AuxIdle
    /\ CleanupIdle
    /\ LogIdle
    /\ HistoryIdle
    /\ MainIdle

\* cleanup_temp_files(output_dir, keep_final)
Cleanup ==
    /\ pc \in {"directory", "cleaned"}
    /\ Len(cleaned) < MaxCleanups
    /\ pc' = "cleaned"
    /\ \E keep \in BOOLEAN : \E fault \in CleanupFaults(fs, keep) : CleanupCall(keep, fault)
    /\ UNCHANGED <<historyVars, sceneVars, merge, subs, runVars, auxVars, logVars, mainVars>>

CleanupNext == Cleanup

SpecCleanup == CleanupInit /\ [][CleanupNext]_vars

\* the last call of cleanup_temp_files and the one before it
LastCleanup == cleaned[Len(cleaned)]

PreviousCleanup == cleaned[Len(cleaned) - 1]

FinalArtifacts == {OutFile("final_video.mp4"), OutFile("script.txt"), OutFile("script_metadata.json")}

\* the intermediate artifacts: what is in the frame and clip directories, the
\* silent video, the narration track, the stretched video and the directives
Intermediates(files) ==
    {f \in files : f.dir \in {"video_frames", "audio_clips"}}
      \cup (files \cap {OutFile("video_without_audio.mp4"), OutFile("voice_audio.mp3"),
                        OutFile("temp_adjusted_video.mp4"), OutFile("frames.txt"),
                        OutFile("audio_list.txt")})

\* C13 (as stated): after a run that returns success the final video, the
\* script and its metadata exist in the output directory and every
\* intermediate artifact is gone.
C13_IntermediatesGone ==
    result = "True" => (FinalArtifacts \subseteq fs /\ Intermediates(fs) = {})

\* C13 (amended): after a run that returns success the final video, the
\* script and its metadata exist in the output directory; if moreover the
\* cleanup of the run returned True, every intermediate artifact is gone and
\* the output directory holds the three final artifacts only.
C13_IntermediatesGoneWhenCleaned ==
    result = "True" =>
        /\ FinalArtifacts \subseteq fs
        /\ Len(cleaned) = 1
        /\ LastCleanup.returned = "True" =>
              /\ Intermediates(fs) = {}
              /\ {f \in fs : f.dir # "cwd"} = FinalArtifacts

\* a successful run whose merge stretched the video and whose cleanup found
\* frames, clips, the silent video, the narration track and the stretched
\* video, and removed them
C13_Witness ==
    /\ result = "True"
    /\ LastCleanup.returned = "True"
    /\ merge.stretched
    /\ {OutFile("video_without_audio.mp4"), OutFile("voice_audio.mp3"),
        OutFile("temp_adjusted_video.mp4"), ImagePath(0), AudioPath(0)} \subseteq fs_before
    /\ Intermediates(fs) = {}

(***************************************************************************)
(* Properties of cleanup_temp_files in its two modes                       *)
(***************************************************************************)
\* the top-level file has a name that contains an allow-list name
OnAllowList(f) ==
    f.dir = "out" /\ \E pattern \in keep_patterns : NameContains(f.name, pattern)

\* the top-level file has a name that contains the final video marker
HasMarker(f) == f.dir = "out" /\ NameContains(f.name, "final_video")

C15_CleanupNeverRaises ==
    /\ raised # "cleanup"
    /\ (calls # <<>> /\ calls[Len(calls)] = "cleanup") =>
          /\ pc = "done"
          /\ result = "True"
          /\ Len(cleaned) = 1
          /\ LastCleanup.keep_final
          /\ LastCleanup.returned \in {"True", "False"}
          /\ LastCleanup.returned = "False" <=> "cleanup" \in swallowed
          /\ LastCleanup.returned = "True" =>
                fs = {f \in fs_before :
                         /\ f.dir \notin {"video_frames", "audio_clips"}
                         /\ f.dir = "out" => OnAllowList(f) \/ HasMarker(f)}
    /\ (calls = <<>> \/ calls[Len(calls)] # "cleanup") => cleaned = <<>>

\* a run whose cleanup failed on removing a file and returned False, and
\* which run_pipeline reports as successful
C15_Witness ==
    /\ result = "True"
    /\ LastCleanup.returned = "False"
    /\ error = "remove"
    /\ "cleanup" \in swallowed
    /\ OutFile("voice_audio.mp3") \in fs

(***************************************************************************)
(* Properties of the image and audio generation of a pipeline run          *)
(***************************************************************************)
\* run_pipeline has called the stage
Called(stage) == \E k \in 1..Len(calls) : calls[k] = stage

\* the image calls of the video stage: one request per scene, in scene
\* order, each returning the output path of its scene, which becomes the
\* path of the image entry of the scene; and the directive was written for
\* the encoder with one file entry and one duration per scene
OneImageCallPerScene ==
    /\ Len(image_log) = Len(scenes)
    /\ Len(scene_images) = Len(scenes)
    /\ \A i \in 1..Len(image_log) :
          /\ image_log[i].request = ImagePath(i - 1)
          /\ image_log[i].outcome = "returned"
          /\ image_log[i].returned = ImagePath(i - 1)
          /\ scene_images[i].image_path = image_log[i].returned
    /\ Len(frames) = (IF scenes = <<>> THEN 0 ELSE 2 * Len(scenes) + 1)
    /\ \A i \in 1..Len(scenes) : frames[2 * i - 1].path = ImagePath(i - 1)

C17_AudioFallback ==
    /\ \A i \in 1..Len(audio_log) :
          audio_log[i].response = "request error" =>
              /\ \/ audio_log[i].fallback = "created" /\ audio_log[i].content = "fallback speech"
                 \/ audio_log[i].fallback = "failed" /\ audio_log[i].content = "empty"
              /\ audio_log[i].outcome = "returned"
              /\ audio_log[i].returned = audio_log[i].request
              /\ audio_log[i].request = AudioPath(i - 1)
              /\ audio_clips[i] = audio_log[i].returned
              /\ cleaned = <<>> => audio_log[i].returned \in fs
    /\ \A i \in 1..Len(audio_log) :
          audio_log[i].response # "request error" => audio_log[i].fallback = "none"
    /\ (Called("voice") /\ \A i \in 1..Len(audio_log) : audio_log[i].response # "other error") =>
          /\ error # "clip"
          /\ Len(audio_log) = Len(scenes)
          /\ Len(audio_clips) = Len(scenes)

\* a voice stage on two scenes that returned: for the first the request
\* failed and the local synthesis made the clip, for the second both failed
\* and the clip is an empty file
C17_Witness ==
    /\ pc = "merge"
    /\ Len(audio_log) = 2
    /\ audio_log[1].response = "request error"
    /\ audio_log[1].content = "fallback speech"
    /\ audio_log[2].response = "request error"
    /\ audio_log[2].content = "empty"
    /\ {AudioPath(0), AudioPath(1), OutFile("voice_audio.mp3")} \subseteq fs

\* C18: when the script yields no scene the run fails and there is no final
\* video: merge, upload and cleanup are never called, and if the voice stage
\* is reached, combine_audio_clips raises on the empty clip list before it
\* writes a directive or runs the encoder, and synthesize_voice raises that
\* error into run_pipeline.
C18_NoScenesNoVideo ==
    (Called("video") /\ scenes = <<>>) =>
        /\ pc \in {"voice", "done"}
        /\ pc = "done" => result = "False"
        /\ OutFile("final_video.mp4") \notin fs
        /\ ~Called("merge") /\ ~Called("upload") /\ ~Called("cleanup")
        /\ Called("voice") =>
              /\ raised = "voice"
              /\ error = "no clips"
              /\ audio_clips = <<>>
              /\ OutFile("audio_list.txt") \notin fs
              /\ OutFile("voice_audio.mp3") \notin fs
        /\ (pc = "done" /\ ~Called("voice")) => raised = "video"

\* a run on a script made of a bracket pair only, which has a paragraph but
\* no scene: the voice stage was reached and failed on the empty clip list
C18_Witness ==
    /\ script = <<"[", "]">>
    /\ scenes = <<>>
    /\ calls = <<"script", "video", "voice">>
    /\ raised = "voice"
    /\ error = "no clips"
    /\ result = "False"

(***************************************************************************)
(* Properties of the concat directive of the video stage                   *)
(***************************************************************************)
\* the entries of the directive of the given kind
DirectiveEntries(kind) == {k \in 1..Len(frames) : frames[k].kind = kind}

\* C21: for n >= 1 scene images the directive of create_video_from_images
\* lists the images in scene order, each followed by its floored duration,
\* and then the last image once more without a duration: n + 1 file entries
\* and n duration entries, every duration positive.  The directive file is
\* gone when the encoder has succeeded, and a failure of the encoder raises
\* out of the stage (the run ends with False, the directive left behind).
C21_ConcatDirective ==
    (Called("video") /\ Len(scenes) >= 1) =>
        LET n == Len(scenes)
        IN  /\ Len(frames) = 2 * n + 1
            /\ \A i \in 1..n :
                   /\ frames[2 * i - 1].kind = "file"
                   /\ frames[2 * i - 1].path = ImagePath(i - 1)
                   /\ frames[2 * i].kind = "duration"
                   /\ frames[2 * i].value =
                          Max(5, 2 * Cardinality(WordStarts(scenes[i].narration)))
                   /\ frames[2 * i].value > 0
            /\ frames[2 * n + 1].kind = "file"
            /\ frames[2 * n + 1].path = ImagePath(n - 1)
            /\ Cardinality(DirectiveEntries("file")) = n + 1
            /\ Cardinality(DirectiveEntries("duration")) = n
            /\ \/ /\ raised # "video"
                  /\ OutFile("frames.txt") \notin fs
                  /\ pc = "voice" => OutFile("video_without_audio.mp4") \in fs
               \/ /\ raised = "video"
                  /\ error = "encoder"
                  /\ pc = "done"
                  /\ result = "False"
                  /\ calls[Len(calls)] = "video"
                  /\ OutFile("frames.txt") \in fs
                  /\ OutFile("video_without_audio.mp4") \notin fs

\* a video stage on two scenes whose encoder succeeded: five directive
\* lines, the silent video written and the directive removed
C21_Witness ==
    /\ pc = "voice"
    /\ Len(scenes) = 2
    /\ Len(frames) = 5
    /\ frames[5].path = ImagePath(1)
    /\ OutFile("video_without_audio.mp4") \in fs
    /\ OutFile("frames.txt") \notin fs

(***************************************************************************)
(* The image of a scene whose request succeeded                            *)
(***************************************************************************)
\* C23: a placeholder image is used only when the image request failed: when
\* the service answers with at least one artifact, generate_image_for_scene,
\* as the video stage of a pipeline run calls it, stores the decoded image at
\* the output path of the scene and creates no placeholder.
C23_PlaceholderOnlyOnFailure ==
    \A i \in 1..Len(image_log) :
        image_log[i].response = "artifacts" =>
            /\ image_log[i].content = "image"
            /\ image_log[i].placeholder = "none"

(***************************************************************************)
(* SpecRuns: up to MaxRuns runs of the pipeline, one after the other, on   *)
(* the same topic, that is on the same output directory                    *)
(***************************************************************************)
\* most runs of the pipeline on one output directory
MaxRuns == 2

\* run_pipeline is called again with the same topic: output_dir is the same
\* path and os.makedirs(output_dir, exist_ok=True) takes the directory as the
\* earlier run left it; everything else starts afresh
Rerun ==
    /\ pc = "done"
    /\ run < MaxRuns
    /\ run' = run + 1
    /\ pc' = "script"
    /\ script' = <<>>
    /\ scenes' = <<>>
    /\ scene_images' = <<>>
    /\ frames' = <<>>
    /\ audio_clips' = <<>>
    /\ metadata' = NoMetadata
    /\ merge' = NoMerge
    /\ skip_upload' \in BOOLEAN
    /\ calls' = <<>>
    /\ raised' = "none"
    /\ swallowed' = {}
    /\ error' = "none"
    /\ result' = "running"
    /\ fs_before' = {}
    /\ cleaned' = <<>>
    /\ image_log' = <<>>
    /\ audio_log' = <<>>
    /\ UNCHANGED <<fs, written, subs, auxVars, mainVars>>

RunsNext == Next \/ Rerun

SpecRuns == Init /\ [][RunsNext]_vars

\* C22: over any sequence of runs on the same output directory, a final
\* video that is there at the end of a run was written by the merge of that
\* same run, from the script that run stored: a run that fails before or
\* during the merge leaves no final video of an earlier run next to its
\* script.
C22_FinalVideoOfThisRun ==
    (pc = "done" /\ OutFile("final_video.mp4") \in fs) =>
        /\ written.final = run
        /\ written.script = run

(***************************************************************************)
(* main_orchestration.py: load_environment, load_prompt_from_file,         *)
(* parse_arguments and the main program                                    *)
(***************************************************************************)
required_vars ==
    {"OPENAI_API_KEY", "ELEVENLABS_API_KEY", "GOOGLE_API_KEY",
     "YOUTUBE_CLIENT_ID", "YOUTUBE_CLIENT_SECRET", "STABILITY_API_KEY"}

\* load_environment(): whether no required variable is missing (a variable
\* set to the empty string is missing)
load_environment(set_vars) == {var \in required_vars : var \notin set_vars} = {}

\* a prompt object; a key it does not have is None
PromptDict(t, s, l) == [kind |-> "dict", topic |-> t, style |-> s, length |-> l]

\* the fallback of load_prompt_from_file
DefaultPrompt ==
    PromptDict(Some("Artificial Intelligence"), Some("educational"), Some("medium"))

\* (a variant of PromptIndex that takes the index as 0-based)
PromptIndex_ZeroBased(index, n) == index % n

\* prompt_index = (int(index) - 1) % len(prompts)
PromptIndex(index, n) == (index - 1) % n

\* load_prompt_from_file(file_path, index) when the file holds `file` and
\* today is day number day_of_year.  A file that cannot be read or parsed, or
\* whose content is empty or not a list, raises inside the try, and so does
\* an entry that is not an object (it has no get); the except clause returns
\* the default prompt.
load_prompt_from_file(file, index, day_of_year) ==
    IF file.kind # "list" \/ file.items = <<>> THEN DefaultPrompt
    ELSE LET given       == IF index = None THEN day_of_year ELSE index[1]
             prompt_data == file.items[PromptIndex(given, Len(file.items)) + 1]
         IN  IF prompt_data.kind # "dict" THEN DefaultPrompt ELSE prompt_data

\* (a variant of ExitCode that reports success whatever run_pipeline returned)
ExitCode_AlwaysZero(success) == 0

\* exit(0 if success else 1)
ExitCode(success) == IF success THEN 0 ELSE 1

\* the stage functions run_pipeline calls from the given one on when none
\* raises
RECURSIVE StagesFrom(_, _)
StagesFrom(stage, skip) ==
    IF stage = "done" THEN <<>>
    ELSE <<stage>> \o StagesFrom(NextStage(stage, skip), skip)

\* the stage functions that raise their errors into run_pipeline
RaisingStages == {"script", "video", "voice", "merge"}

(***************************************************************************)
(* SpecMain: the main program on every environment and command line, with  *)
(* prompt files of at most MaxPrompts prompts and indices up to MaxIndex   *)
(***************************************************************************)
\* most prompts in a prompts file
MaxPrompts == 3

\* largest prompt index and day of the year enumerated
MaxIndex == 5

\* the i-th prompt of a file: an object with its own topic, an object
\* without a topic, or something that is not an object
PromptEntries(i) ==
    {PromptDict(Some("topic " \o ToString(i)), Some("narrative"), None),
     PromptDict(None, None, None),
     [kind |-> "string", topic |-> None, style |-> None, length |-> None]}

\* the lists of n prompts in which at most the last is not an object with a
\* topic
PromptLists(n) ==
    {[i \in 1..n |-> IF i < n THEN PromptDict(Some("topic " \o ToString(i)), Some("narrative"), None)
                     ELSE last] : last \in PromptEntries(n)}

\* what a prompts file can hold: nothing readable, something that is not a
\* list, or a list of prompts
PromptFiles ==
    {[kind |-> "unreadable", items |-> <<>>], [kind |-> "not a list", items |-> <<>>]}
      \cup {[kind |-> "list", items |-> items] :
               items \in UNION {PromptLists(n) : n \in 0..MaxPrompts}}

\* the command lines: one the parser answers with its help text, one it
\* rejects, and those it accepts
CommandLines ==
    {[NoArgs EXCEPT !.kind = k] : k \in {"help", "usage error"}}
      \cup [kind : {"parsed"},
            topic : {None, Some(""), Some("AI")},
            from_prompt_file : {None, Some("prompts.json")},
            prompt_index : {None} \cup {Some(i) : i \in (0 - MaxIndex)..MaxIndex},
            skip_upload : BOOLEAN]

MainInit ==
    /\ pc = "main"
    /\ script = <<>>
    /\ scenes = <<>>
    /\ scene_images = <<>>
    /\ frames = <<>>
    /\ audio_clips = <<>>
    /\ metadata = NoMetadata
    /\ fs = {}
    /\ merge = NoMerge
    /\ subs = NoSubs
    /\ RunIdle
    /\ AuxIdle
    /\ CleanupIdle
    /\ LogIdle
    /\ HistoryIdle
    /\ env \in SUBSET required_vars
    /\ args \in CommandLines
    /\ prompts = NoPrompts
    /\ day = 0
    /\ prompt = NoPrompt
    /\ topic = None
    /\ exit_code = -1

\* exit(code)
Exits(code) ==
    /\ pc' = "exited"
    /\ exit_code' = code

\* if not load_environment(): exit(1)
LoadEnvironment ==
    /\ pc = "main"
    /\ IF load_environment(env) THEN pc' = "parse" /\ UNCHANGED exit_code
       ELSE Exits(1)
    /\ UNCHANGED <<historyVars, sceneVars, fs, merge, subs, runVars, auxVars, cleanupVars, logVars,
                   env, args, prompts, day, prompt, topic>>

\* parse_arguments(): the parser prints its help and exits with 0, rejects
\* the command line and exits with 2, or returns the arguments
ParseArguments ==
    /\ pc = "parse"
    /\ CASE args.kind = "help" -> Exits(0)
         [] args.kind = "usage error" -> Exits(2)
         [] args.kind = "parsed" -> pc' = "select" /\ UNCHANGED exit_code
    /\ UNCHANGED <<historyVars, sceneVars, fs, merge, subs, runVars, auxVars, cleanupVars, logVars,
                   env, args, prompts, day, prompt, topic>>

\* the choice of topic: from the prompt file if one is given, else from
\* --topic, without which the program exits with 1
SelectTopic ==
    /\ pc = "select"
    /\ IF args.from_prompt_file # None
       THEN /\ \E file \in PromptFiles :
                 \E day_of_year \in (IF args.prompt_index = None THEN 1..MaxIndex ELSE {0}) :
                    /\ prompts' = file
                    /\ day' = day_of_year
                    /\ prompt' = load_prompt_from_file(file, args.prompt_index, day_of_year)
            /\ topic' = prompt'.topic
            /\ pc' = "run"
            /\ UNCHANGED exit_code
       ELSE IF args.topic \in {None, Some("")}
       THEN Exits(1) /\ UNCHANGED <<prompts, day, prompt, topic>>
       ELSE /\ topic' = args.topic
            /\ pc' = "run"
            /\ UNCHANGED <<prompts, day, prompt, exit_code>>
    /\ UNCHANGED <<historyVars, sceneVars, fs, merge, subs, runVars, auxVars, cleanupVars, logVars, env, args>>

\* run_pipeline(topic, style, length, skip_upload) seen from the main
\* program: it raises before its try (topic is None, or the output directory
\* cannot be made) and the process dies with status 1; or its stage functions
\* are called in order until one raises, and it returns False; or all return,
\* and it returns True
RunPipeline ==
    /\ pc = "run"
    /\ skip_upload' = args.skip_upload
    /\ LET stages == StagesFrom("script", args.skip_upload)
       IN  \/ /\ Exits(1)
              /\ result' = "raised"
              /\ UNCHANGED <<calls, raised>>
           \/ /\ topic # None
              /\ \E k \in {i \in 1..Len(stages) : stages[i] \in RaisingStages} :
                    /\ calls' = SubSeq(stages, 1, k)
                    /\ raised' = stages[k]
              /\ result' = "False"
              /\ pc' = "ran"
              /\ UNCHANGED exit_code
           \/ /\ topic # None
              /\ calls' = stages
              /\ result' = "True"
              /\ pc' = "ran"
              /\ UNCHANGED <<raised, exit_code>>
    /\ UNCHANGED <<historyVars, sceneVars, fs, merge, subs, swallowed, error, auxVars, cleanupVars, logVars,
                   env, args, prompts, day, prompt, topic>>

\* exit(0 if success else 1)
MainExit ==
    /\ pc = "ran"
    /\ Exits(ExitCode(result = "True"))
    /\ UNCHANGED <<historyVars, sceneVars, fs, merge, subs, runVars, auxVars, cleanupVars, logVars,
                   env, args, prompts, day, prompt, topic>>

MainNext ==
    \/ LoadEnvironment
    \/ ParseArguments
    \/ SelectTopic
    \/ RunPipeline
    \/ MainExit

SpecMain == MainInit /\ [][MainNext]_vars

(***************************************************************************)
(* Properties of the main program                                          *)
(***************************************************************************)
\* a required credential is missing
CredentialMissing == \E var \in required_vars : var \notin env

\* the command line was accepted and names neither a topic nor a prompt file
NeitherTopicNorFile ==
    args.kind = "parsed" /\ args.from_prompt_file = None /\ args.topic \in {None, Some("")}

\* C19 (as stated): the process exits with 0 if and only if run_pipeline
\* returned True, and with 1 otherwise; with a required credential missing
\* it exits with 1 before any stage is called, whatever skip_upload is, and
\* with neither a topic nor a prompt file it exits with 1 and no stage is
\* called.
C19_ExitZeroIffSuccess ==
    pc = "exited" =>
        /\ exit_code = 0 <=> result = "True"
        /\ exit_code # 0 => exit_code = 1
        /\ CredentialMissing => (exit_code = 1 /\ calls = <<>>)
        /\ NeitherTopicNorFile => (exit_code = 1 /\ calls = <<>>)

\* C19 (amended): with a required credential missing the process exits with
\* 1 before the command line is parsed and before any stage is called,
\* whatever skip_upload is; otherwise the argument parser ends the process
\* itself, with 0 for a help request and with 2 for a command line it
\* rejects, and no stage is called; for an accepted command line the process
\* exits with 0 if and only if run_pipeline returned True, and with 1
\* otherwise, and with neither a topic nor a prompt file it exits with 1 and
\* no stage is called.
C19_ExitCode ==
    /\ pc = "exited" <=> exit_code # -1
    /\ pc = "exited" =>
          /\ CredentialMissing => (exit_code = 1 /\ calls = <<>> /\ result = "running")
          /\ (~CredentialMissing /\ args.kind = "help") => (exit_code = 0 /\ calls = <<>>)
          /\ (~CredentialMissing /\ args.kind = "usage error") => (exit_code = 2 /\ calls = <<>>)
          /\ (~CredentialMissing /\ args.kind = "parsed") =>
                /\ exit_code = 0 <=> result = "True"
                /\ exit_code # 0 => exit_code = 1
                /\ NeitherTopicNorFile => (exit_code = 1 /\ calls = <<>>)
                /\ result = "True" =>
                      (calls # <<>> /\ calls[Len(calls)] = "cleanup" /\ raised = "none")

\* only the upload credentials are missing and the upload is skipped: the
\* process has exited with 1 and no stage was called
C19_Witness ==
    /\ pc = "exited"
    /\ env = required_vars \ {"YOUTUBE_CLIENT_ID", "YOUTUBE_CLIENT_SECRET"}
    /\ args.kind = "parsed"
    /\ args.skip_upload
    /\ args.topic = Some("AI")
    /\ exit_code = 1
    /\ calls = <<>>

\* the prompt was loaded from a prompts file
PromptLoaded == prompts.kind # "none"

\* the index load_prompt_from_file was given, or the day of the year
GivenIndex == IF args.prompt_index = None THEN day ELSE args.prompt_index[1]

\* C20: from a list of n > 0 prompts load_prompt_from_file returns the one
\* at the 0-based position p in 0..n-1 that differs from index - 1 by a
\* multiple of n, where the index is the day of the year when none is given:
\* indices beyond n cycle, and index n + 1 selects what index 1 selects; on
\* any load error (no readable list, an empty list, an entry that is not an
\* object) it returns the default prompt and does not raise.
C20_PromptSelection ==
    /\ PromptLoaded =>
          LET n == Len(prompts.items)
          IN  IF prompts.kind = "list" /\ n > 0
              THEN \E p \in 0..(n - 1) :
                      /\ \E q \in (0 - MaxIndex - 1)..MaxIndex : GivenIndex - 1 = q * n + p
                      /\ prompt = (IF prompts.items[p + 1].kind = "dict"
                                   THEN prompts.items[p + 1] ELSE DefaultPrompt)
              ELSE prompt = DefaultPrompt
    /\ PromptLoaded => topic = prompt.topic
    /\ \A n \in 1..MaxPrompts :
          /\ PromptIndex(n + 1, n) = PromptIndex(1, n)
          /\ \A i \in (0 - MaxIndex)..MaxIndex : PromptIndex(i, n) \in 0..(n - 1)

\* three prompts and index 4: the first prompt is selected
C20_Witness ==
    /\ PromptLoaded
    /\ Len(prompts.items) = 3
    /\ args.prompt_index = Some(4)
    /\ prompt = prompts.items[1]
    /\ prompt.topic = Some("topic 1")
    /\ topic = Some("topic 1")

====
